---- MODULE Spec2Model ----
(***************************************************************************)
(* Document-request selection and fulfilment: the Django models of         *)
(* documents/models.py and the request handlers of documents/views.py,     *)
(* over the relational store they share.  Every table is a set of rows;    *)
(* primary keys come from per-table AutoField counters that never reuse a  *)
(* value.  Django runs each ORM statement in its own transaction           *)
(* (autocommit), except inside an explicit transaction.atomic() block.     *)
(***************************************************************************)
EXTENDS Integers, Sequences, FiniteSets, TLC

VARIABLES requests, categories, printGroups, documents, selections, uploads,
          seq, now, last, procs

tables == <<requests, categories, printGroups, documents, selections, uploads>>
vars == <<requests, categories, printGroups, documents, selections, uploads,
          seq, now, last, procs>>

----------------------------------------------------------------------------
(* Bounds of the model *)

\* highest primary key an AdminDocumentSelection row may take
MaxSelections == 4
\* highest primary key a UserDocumentUpload row may take
MaxUploads == 2
\* highest value of the clock that stamps accepted_at
MaxClock == 2
\* highest primary key a Category or PrintGroup row may take
MaxScoped == 4
NProc == 2
\* highest primary key a Document row may take
MaxDocuments == 5

----------------------------------------------------------------------------
(* Value domains *)

\* a null foreign key / absent JSON field
NULL == 0

\* request ids found in URLs
RequestIds == {"r1", "r2"}

\* names, in lexicographic order
AllNames == <<"Assets", "Bank", "W2">>
Names == {AllNames[i] : i \in 1..Len(AllNames)}
NameRank(n) == CHOOSE i \in 1..Len(AllNames) : AllNames[i] = n

SECTION_CHOICES == {"adhoc", "individual", "needs_list"}

----------------------------------------------------------------------------
(* Rows *)

DocumentRequestRow(id, rid) == [id |-> id, request_id |-> rid]
CategoryRow(id, name, req) == [id |-> id, name |-> name, request |-> req]
PrintGroupRow(id, name, req) == [id |-> id, name |-> name, request |-> req]
DocumentRow(id, name, cat, req) ==
    [id |-> id, name |-> name, category |-> cat, request |-> req]
AdminDocumentSelectionRow(id, req, sec, doc, pg) ==
    [id |-> id, request |-> req, section_type |-> sec, document |-> doc,
     print_group |-> pg]

\* the acceptance columns of a new upload row
UploadDefaults == [accepted |-> FALSE, accepted_at |-> NULL]

UserDocumentUploadRow(id, sel, file_id) ==
    [id |-> id, admin_selection |-> sel, ghl_file_id |-> file_id,
     accepted |-> UploadDefaults.accepted,
     accepted_at |-> UploadDefaults.accepted_at]

\* the request that owns a category, print group or document; NULL = global
OwningRequest(row) == row.request

----------------------------------------------------------------------------
(* Storage layer: constraints and cascades declared in models.py *)

Lookup(reqs, rid) == {r \in reqs : r.request_id = rid}

\* DocumentRequest.request_id is unique=True: the INSERT is refused when a row
\* with that request_id is already there
InsertRequestNoConstraint(reqs, rid) == TRUE
InsertRequestOK(reqs, rid) == Lookup(reqs, rid) = {}

\* Category.name is unique=True over the whole table
CategoryInsertNoConstraint(cats, name) == TRUE
CategoryInsertOK(cats, name) == ~\E c \in cats : c.name = name

\* PrintGroup.name is unique=True over the whole table
PrintGroupInsertNoConstraint(pgs, name) == TRUE
PrintGroupInsertOK(pgs, name) == ~\E g \in pgs : g.name = name

\* unique_together (request, section_type, document, print_group); SQL treats
\* NULLs as distinct, so a row without print_group collides with nothing
SelectionInsertNoConstraint(sels, row) == TRUE
SelectionInsertOK(sels, row) ==
    ~\E s \in sels :
        /\ row.print_group # NULL
        /\ s.request = row.request
        /\ s.section_type = row.section_type
        /\ s.document = row.document
        /\ s.print_group = row.print_group

\* UserDocumentUpload.admin_selection is on_delete=CASCADE
CascadeUploadsKeepAll(ups, victims) == ups
CascadeUploads(ups, victims) ==
    {u \in ups : ~\E s \in victims : s.id = u.admin_selection}

\* Document Meta.ordering = ['name']; equal names come back in pk order
DocBefore(d, e) ==
    \/ NameRank(d.name) < NameRank(e.name)
    \/ NameRank(d.name) = NameRank(e.name) /\ d.id <= e.id

RECURSIVE OrderByName(_)
OrderByName(S) ==
    IF S = {} THEN <<>>
    ELSE LET m == CHOOSE d \in S : \A e \in S : DocBefore(d, e)
         IN <<m>> \o OrderByName(S \ {m})

----------------------------------------------------------------------------
(* Responses *)

Response(op, rid, status, args, out) ==
    [op |-> op, rid |-> rid, status |-> status, args |-> args, out |-> out]

NoResponse == Response("none", "", 0, <<>>, <<>>)

\* Django's get_or_create when no other statement runs in between
GetOrCreateNeverCreates(reqs, rid, id) ==
    [rows |-> reqs, row |-> DocumentRequestRow(id, rid), created |-> FALSE]
GetOrCreate(reqs, rid, id) ==
    IF Lookup(reqs, rid) # {}
    THEN [rows |-> reqs, row |-> CHOOSE r \in Lookup(reqs, rid) : TRUE,
          created |-> FALSE]
    ELSE [rows |-> reqs \cup {DocumentRequestRow(id, rid)},
          row |-> DocumentRequestRow(id, rid), created |-> TRUE]

Bump(s, table, n) == [s EXCEPT ![table] = @ + n]

----------------------------------------------------------------------------
(* Projection *)

SectionOf(sels, req, sec) ==
    {s \in sels : s.request = req /\ s.section_type = sec}

PrintGroupNameOrEmpty(pgs, pg) ==
    IF pg # NULL /\ \E g \in pgs : g.id = pg
    THEN (CHOOSE g \in pgs : g.id = pg).name
    ELSE ""
PrintGroupName(pgs, pg) ==
    IF pg # NULL /\ \E g \in pgs : g.id = pg
    THEN (CHOOSE g \in pgs : g.id = pg).name
    ELSE "Unknown"

\* Meta.ordering of AdminDocumentSelection within a section: created_at, which
\* the AutoField pk follows
RECURSIVE OrderByCreated(_)
OrderByCreated(S) ==
    IF S = {} THEN <<>>
    ELSE LET m == CHOOSE s \in S : \A t \in S : s.id <= t.id
         IN <<m>> \o OrderByCreated(S \ {m})

DocData(sel, ups) ==
    [selection_id |-> sel.id, document_id |-> sel.document,
     uploads |-> {u \in ups : u.admin_selection = sel.id}]

DocList(S, ups) ==
    [i \in 1..Cardinality(S) |-> DocData(OrderByCreated(S)[i], ups)]

\* _build_request_document_data: the selections of the request with their
\* uploads, by section; needs_list is keyed by print group name
BuildView(sels, ups, pgs, req) ==
    [adhoc |-> DocList(SectionOf(sels, req, "adhoc"), ups),
     individual |-> DocList(SectionOf(sels, req, "individual"), ups),
     needsList |->
        [n \in {PrintGroupName(pgs, s.print_group) :
                    s \in SectionOf(sels, req, "needs_list")} |->
            DocList({s \in SectionOf(sels, req, "needs_list") :
                        PrintGroupName(pgs, s.print_group) = n}, ups)]]

\* the keys of needs_list_docs in the order the dict holds them: the order in
\* which the loop over the selections first meets each print group name
RECURSIVE FirstSeen(_, _)
FirstSeen(names, seen) ==
    IF names = <<>> THEN <<>>
    ELSE IF Head(names) \in seen THEN FirstSeen(Tail(names), seen)
    ELSE <<Head(names)>> \o FirstSeen(Tail(names), seen \cup {Head(names)})

GroupKeys(sels, pgs, req) ==
    LET ordered == OrderByCreated(SectionOf(sels, req, "needs_list"))
    IN FirstSeen([i \in DOMAIN ordered |->
                    PrintGroupName(pgs, ordered[i].print_group)], {})

\* group names as Python compares strings, the fallback key among them
GroupNames == <<"Assets", "Bank", "Unknown", "W2">>
GroupRank(n) == CHOOSE i \in 1..Len(GroupNames) : GroupNames[i] = n

\* sorted(needs_list_docs.items()): the keys in ascending order
RECURSIVE SortedKeys(_)
SortedKeys(S) ==
    IF S = {} THEN <<>>
    ELSE LET m == CHOOSE n \in S : \A k \in S : GroupRank(n) <= GroupRank(k)
         IN <<m>> \o SortedKeys(S \ {m})

----------------------------------------------------------------------------
(* Initial state: an empty request registry over the catalogue that the     *)
(* import_documents command loads (global rows, names unique).              *)

SeedCategories == {CategoryRow(1, AllNames[1], NULL)}
SeedPrintGroups == {PrintGroupRow(1, AllNames[1], NULL),
                    PrintGroupRow(2, AllNames[2], NULL)}
SeedDocuments == {DocumentRow(i, AllNames[i], 1, NULL) : i \in 1..Len(AllNames)}

Init ==
    /\ requests = {}
    /\ categories = SeedCategories
    /\ printGroups = SeedPrintGroups
    /\ documents = SeedDocuments
    /\ selections = {}
    /\ uploads = {}
    /\ seq = [request |-> 1,
              category |-> Cardinality(SeedCategories) + 1,
              print_group |-> Cardinality(SeedPrintGroups) + 1,
              document |-> Cardinality(SeedDocuments) + 1,
              selection |-> 1, upload |-> 1]
    /\ now = 1
    /\ last = NoResponse
    /\ procs = <<>>

\* a handler that ran alone answers: the response becomes the latest one
Answer(resp) == last' = resp /\ UNCHANGED procs

\* ids a caller may put in a URL or a JSON body
DocumentIds == 1..(Cardinality(SeedDocuments) + 1)
PrintGroupIds == 1..(Cardinality(SeedPrintGroups) + 1)
SelectionIds == 1..MaxSelections
UploadIds == 1..MaxUploads

----------------------------------------------------------------------------
(* Handlers of views.py, each run alone from request to response *)

\* homepage, adhoc_page, individual_documents_page, needs_list_page,
\* admin_request_page: get_or_create the request, then render
Homepage(rid) ==
    LET g == GetOrCreate(requests, rid, seq.request) IN
    /\ requests' = g.rows
    /\ seq' = IF g.created THEN Bump(seq, "request", 1) ELSE seq
    /\ Answer(Response("homepage", rid, 200, <<>>, [request |-> g.row.id]))
    /\ UNCHANGED <<categories, printGroups, documents, selections, uploads, now>>

\* save_admin_selections, lines 1086-1106: the status of the early return, or
\* 0 when the request passes validation.  document_ids is taken as a set: the
\* ids of the list are distinct.
SaveValidateGroupOptional(section_type, document_ids, print_group_id, docs, pgs) ==
    IF section_type \notin SECTION_CHOICES THEN 400
    ELSE IF document_ids = {} THEN 400
    ELSE IF Cardinality({d \in docs : d.id \in document_ids})
                # Cardinality(document_ids) THEN 404
    ELSE IF print_group_id # NULL /\ ~\E g \in pgs : g.id = print_group_id
         THEN 404
    ELSE 0
SaveValidateEmptyAllowed(section_type, document_ids, print_group_id, docs, pgs) ==
    IF section_type \notin SECTION_CHOICES THEN 400
    ELSE IF section_type = "needs_list" /\ print_group_id = NULL THEN 400
    ELSE IF Cardinality({d \in docs : d.id \in document_ids})
                # Cardinality(document_ids) THEN 404
    ELSE IF print_group_id # NULL /\ ~\E g \in pgs : g.id = print_group_id
         THEN 404
    ELSE 0
SaveValidate(section_type, document_ids, print_group_id, docs, pgs) ==
    IF section_type \notin SECTION_CHOICES THEN 400
    ELSE IF document_ids = {} THEN 400
    ELSE IF section_type = "needs_list" /\ print_group_id = NULL THEN 400
    ELSE IF Cardinality({d \in docs : d.id \in document_ids})
                # Cardinality(document_ids) THEN 404
    ELSE IF print_group_id # NULL /\ ~\E g \in pgs : g.id = print_group_id
         THEN 404
    ELSE 0

\* lines 1109-1112: the rows the DELETE removes
SaveDeleteKeepsOthers(sels, req, section_type, print_group_id) ==
    {s \in SectionOf(sels, req, section_type) : s.print_group = print_group_id}
SaveDeleteNothing(sels, req, section_type, print_group_id) == {}
SaveDeleteWholeRequest(sels, req, section_type, print_group_id) ==
    {s \in sels : s.request = req}
SaveDelete(sels, req, section_type, print_group_id) ==
    SectionOf(sels, req, section_type)

\* lines 1116-1128: the rows the loop inserts, one per document of the
\* queryset in its order, print_group as passed for every section type
SaveNewRowsNoGroup(docs, document_ids, req, section_type, print_group_id, first) ==
    LET ordered == OrderByName({d \in docs : d.id \in document_ids})
    IN {AdminDocumentSelectionRow(first + i - 1, req, section_type,
                                  ordered[i].id, NULL) :
            i \in 1..Len(ordered)}
SaveNewRows(docs, document_ids, req, section_type, print_group_id, first) ==
    LET ordered == OrderByName({d \in docs : d.id \in document_ids})
    IN {AdminDocumentSelectionRow(first + i - 1, req, section_type,
                                  ordered[i].id, print_group_id) :
            i \in 1..Len(ordered)}

\* the atomic block commits unless one INSERT breaks unique_together
SaveInsertOK(sels, new) == \A n \in new : SelectionInsertOK(sels, n)

\* lines 1134-1186: the CRM notification runs inside try / except Exception,
\* which logs a warning; the status of the answer that follows
AfterNotifyUncaught(crm) == IF crm = "ok" THEN 201 ELSE 500
AfterNotify(crm) == 201

\* what the CRM does with the notification
CrmOutcomes == {"ok", "error", "timeout"}

\* lines 1138-1141: the sections whose selections the notification lists
AllSections == SECTION_CHOICES
NotifiedSections == {"individual", "needs_list"}

\* lines 1143-1150: the names of the documents of the selections, in the
\* order of the selections, a name already seen left out
RECURSIVE DistinctNames(_, _, _)
DistinctNames(ordered, docs, seen) ==
    IF ordered = <<>> THEN <<>>
    ELSE LET name == (CHOOSE d \in docs : d.id = Head(ordered).document).name
         IN IF name \in seen
            THEN DistinctNames(Tail(ordered), docs, seen)
            ELSE <<name>> \o DistinctNames(Tail(ordered), docs,
                                           seen \cup {name})

\* lines 1156-1158: "1. name", "2. name", ... one per line
NumberedList(names) == [i \in 1..Len(names) |-> <<i, names[i]>>]

\* lines 1152-1175: the custom fields sent: the numbered list when there is
\* a name, and the upload link of the request; both field ids are configured
\* (lines 241 and 243)
CustomFields(sels, docs, req, rid) ==
    LET listed == {s \in sels : /\ s.request = req
                                /\ s.section_type \in NotifiedSections}
        names == DistinctNames(OrderByCreated(listed), docs, {})
    IN (IF names # <<>>
        THEN {[id |-> "needs_list_items", field_value |-> NumberedList(names)]}
        ELSE {})
       \cup {[id |-> "needs_list_url", field_value |-> <<rid, "upload">>]}

SaveAdminSelections(rid, section_type, document_ids, print_group_id, crm) ==
    LET g == GetOrCreate(requests, rid, seq.request)
        req == g.row.id
        status == SaveValidate(section_type, document_ids, print_group_id,
                               documents, printGroups)
        old == SaveDelete(selections, req, section_type, print_group_id)
        kept == selections \ old
        new == SaveNewRows(documents, document_ids, req, section_type,
                           print_group_id, seq.selection)
        args == [section_type |-> section_type, document_ids |-> document_ids,
                 print_group_id |-> print_group_id, crm |-> crm]
        seq1 == IF g.created THEN Bump(seq, "request", 1) ELSE seq
    IN
    /\ requests' = g.rows
    /\ IF status # 0
       THEN /\ Answer(Response("save", rid, status, args, <<>>))
            /\ seq' = seq1
            /\ UNCHANGED <<selections, uploads>>
       ELSE /\ seq.selection + Cardinality(new) - 1 <= MaxSelections
            /\ uploads' = CascadeUploads(uploads, old)
            /\ IF SaveInsertOK(kept, new)
               THEN /\ selections' = kept \cup new
                    /\ seq' = Bump(seq1, "selection", Cardinality(new))
                    /\ Answer(Response("save", rid, AfterNotify(crm), args,
                            [request |-> req,
                             selections |-> {n.id : n \in new},
                             deleted |-> old,
                             notification |->
                                CustomFields(kept \cup new, documents, req,
                                             rid)]))
               ELSE /\ selections' = kept
                    /\ seq' = seq1
                    /\ Answer(Response("save", rid, 500, args,
                            [request |-> req, deleted |-> old]))
    /\ UNCHANGED <<categories, printGroups, documents, now>>

\* ghl_service.upload_file: the POST to the media host.  raise_for_status
\* raises HTTPError on an error answer, requests raises Timeout after 60 s;
\* otherwise the fileId of the answer is returned.
GhlUploadNeverRaises(ghl) ==
    [raised |-> "", fileId |-> IF ghl = "ok" THEN "file" ELSE ""]
GhlUploadFile(ghl) ==
    IF ghl = "ok" THEN [raised |-> "", fileId |-> "file"]
    ELSE IF ghl = "http_error" THEN [raised |-> "HTTPError", fileId |-> ""]
    ELSE [raised |-> "Timeout", fileId |-> ""]

\* upload_user_file.  Http404 from get_object_or_404 is an Exception and meets
\* the handler's "except Exception" clause.
UploadUserFile(rid, selection_id, has_file, ghl) ==
    LET reqs == Lookup(requests, rid)
        req == (CHOOSE r \in reqs : TRUE).id
        args == [selection_id |-> selection_id, has_file |-> has_file,
                 ghl |-> ghl]
        found == \E s \in selections : s.id = selection_id /\ s.request = req
        result == GhlUploadFile(ghl)
        status == IF reqs = {} THEN 404
                  ELSE IF ~found THEN 500
                  ELSE IF ~has_file THEN 400
                  ELSE IF result.raised = "HTTPError" THEN 502
                  ELSE IF result.raised # "" THEN 500
                  ELSE 201
    IN
    /\ IF status = 201
       THEN /\ seq.upload <= MaxUploads
            /\ uploads' = uploads \cup
                    {UserDocumentUploadRow(seq.upload, selection_id,
                                           result.fileId)}
            /\ seq' = Bump(seq, "upload", 1)
            /\ Answer(Response("upload", rid, 201, args,
                               [upload_id |-> seq.upload]))
       ELSE /\ Answer(Response("upload", rid, status, args, <<>>))
            /\ UNCHANGED <<uploads, seq>>
    /\ UNCHANGED <<requests, categories, printGroups, documents, selections,
                   now>>

\* the upload the handlers resolve: id and admin_selection__request
UploadOfAnyRequest(ups, sels, req, upload_id) ==
    {u \in ups : u.id = upload_id}
UploadOf(ups, sels, req, upload_id) ==
    {u \in ups : /\ u.id = upload_id
                 /\ \E s \in sels : s.id = u.admin_selection /\ s.request = req}

\* delete_user_upload, lines 1272-1276: an accepted upload is refused
DeleteNeverRefused(u) == FALSE
DeleteRefused(u) == u.accepted

\* delete_user_upload, lines 1278-1285: whether a failure of the remote
\* delete (ghl is FALSE) leaves the try block around ghl_delete_media
GhlDeleteRaises(ghl) == ~ghl
GhlDeleteEscapes(ghl) == FALSE

\* delete_user_upload.  The remote delete is best effort: its outcome changes
\* nothing here.
DeleteUserUpload(rid, upload_id, ghl) ==
    LET reqs == Lookup(requests, rid)
        req == (CHOOSE r \in reqs : TRUE).id
        found == UploadOf(uploads, selections, req, upload_id)
        upload == CHOOSE u \in found : TRUE
        args == [upload_id |-> upload_id, ghl |-> ghl]
        status == IF reqs = {} THEN 404
                  ELSE IF found = {} THEN 500
                  ELSE IF DeleteRefused(upload) THEN 403
                  ELSE IF GhlDeleteEscapes(ghl) THEN 500
                  ELSE 200
    IN
    /\ uploads' = IF status = 200 THEN uploads \ {upload} ELSE uploads
    /\ Answer(Response("delete", rid, status, args, <<>>))
    /\ UNCHANGED <<requests, categories, printGroups, documents, selections,
                   seq, now>>

\* accept_user_upload, lines 1325-1329: the columns written by the save
AcceptedColumnsStuck(u, accepted, t) ==
    [u EXCEPT !.accepted = u.accepted \/ accepted,
              !.accepted_at = IF u.accepted \/ accepted THEN t ELSE NULL]
AcceptedColumns(u, accepted, t) ==
    [u EXCEPT !.accepted = accepted,
              !.accepted_at = IF accepted THEN t ELSE NULL]

\* accept_user_upload; timezone.now() is later at every call that stamps
AcceptUserUpload(rid, upload_id, accepted) ==
    LET reqs == Lookup(requests, rid)
        req == (CHOOSE r \in reqs : TRUE).id
        found == UploadOf(uploads, selections, req, upload_id)
        upload == CHOOSE u \in found : TRUE
        args == [upload_id |-> upload_id, accepted |-> accepted]
        status == IF reqs = {} THEN 404
                  ELSE IF found = {} THEN 500
                  ELSE 200
    IN
    /\ IF status = 200
       THEN /\ accepted => now <= MaxClock
            /\ uploads' = (uploads \ {upload}) \cup
                            {AcceptedColumns(upload, accepted, now)}
            /\ now' = IF accepted THEN now + 1 ELSE now
       ELSE UNCHANGED <<uploads, now>>
    /\ Answer(Response("accept", rid, status, args, <<>>))
    /\ UNCHANGED <<requests, categories, printGroups, documents, selections,
                   seq>>

----------------------------------------------------------------------------
(* The selection engine, one handler at a time: admin pages and bulk saves  *)
(* for two requests over the catalogue.                                     *)

\* an id no document / print group of the catalogue has
NoDocument == Cardinality(SeedDocuments) + 1
NoPrintGroup == Cardinality(SeedPrintGroups) + 1

\* bodies a caller posts to save_admin_selections: every section with two
\* overlapping pairs of catalogue documents, with and without a print group,
\* and one body for each way validation can fail
SaveBodies ==
    (SECTION_CHOICES \X {{1, 2}, {2, 3}} \X {NULL, 1})
    \cup {<<"other", {1, 2}, NULL>>,
          <<"individual", {}, NULL>>,
          <<"needs_list", {}, 1>>,
          <<"individual", {1, NoDocument}, NULL>>,
          <<"needs_list", {2, 3}, NoPrintGroup>>,
          <<"adhoc", {1, 2}, NoPrintGroup>>}

NextSelections ==
    \/ \E rid \in RequestIds : Homepage(rid)
    \/ \E rid \in RequestIds, b \in SaveBodies, crm \in CrmOutcomes :
            SaveAdminSelections(rid, b[1], b[2], b[3], crm)

SpecSelections == Init /\ [][NextSelections]_vars

----------------------------------------------------------------------------
(* Properties of the selection engine *)

SaveOK(r) == r.op = "save" /\ r.status = 201

TimesSelected(sels, req, sec, d) ==
    Cardinality({s \in SectionOf(sels, req, sec) : s.document = d})

\* the documents of (req, sec) are exactly ids, each selected once
SelectedExactly(sels, req, sec, ids) ==
    \A d \in ids \cup {s.document : s \in SectionOf(sels, req, sec)} :
        TimesSelected(sels, req, sec, d) = IF d \in ids THEN 1 ELSE 0

\* C2: a successful replaceSection(R, S, A) followed by a successful
\* replaceSection(R, S, B) leaves exactly the documents of B selected for
\* (R, S), each once; a document of A that is not in B is no longer selected.
C2_ReplaceThenReplace ==
    [][(/\ SaveOK(last) /\ SaveOK(last')
        /\ last'.rid = last.rid
        /\ last'.args.section_type = last.args.section_type)
       => /\ SelectedExactly(selections', last'.out.request,
                             last'.args.section_type,
                             last'.args.document_ids)
          /\ \A d \in last.args.document_ids \ last'.args.document_ids :
                TimesSelected(selections', last'.out.request,
                              last'.args.section_type, d) = 0]_vars

\* a second save has replaced {doc1, doc2} by {doc2, doc3}
C2_Witness ==
    /\ SaveOK(last)
    /\ last.args.document_ids = {2, 3}
    /\ {s.document : s \in last.out.deleted} = {1, 2}
    /\ SelectedExactly(selections, last.out.request, last.args.section_type,
                       {2, 3})

\* C7: replaceSection(R, needs_list, ids, no print group) with a non-empty
\* set of existing documents is answered 400, a validation error.
C7_NeedsListWithoutGroup ==
    (/\ last.op = "save"
     /\ last.args.section_type = "needs_list"
     /\ last.args.document_ids # {}
     /\ last.args.document_ids \subseteq {d.id : d \in documents}
     /\ last.args.print_group_id = NULL)
    => last.status = 400

C7_Witness ==
    /\ last.op = "save"
    /\ last.args.section_type = "needs_list"
    /\ last.args.document_ids = {1, 2}
    /\ last.args.print_group_id = NULL
    /\ last.status = 400

DocumentsOf(list) == {list[i].document_id : i \in DOMAIN list}

\* C8: after a successful replaceSection(R, needs_list, ids, G), buildView(R)
\* has a needsList group keyed by G's name whose entries are the documents of
\* ids, each once, and the adhoc and individual lists of R are as they were
\* before the call.
C8_NeedsListGroupedByName ==
    [][(/\ SaveOK(last')
        /\ last'.args.section_type = "needs_list")
       => LET req == last'.out.request
              ids == last'.args.document_ids
              G == CHOOSE g \in printGroups : g.id = last'.args.print_group_id
              before == BuildView(selections, uploads, printGroups, req)
              after == BuildView(selections', uploads', printGroups', req)
          IN /\ G.name \in DOMAIN after.needsList
             /\ Len(after.needsList[G.name]) = Cardinality(ids)
             /\ DocumentsOf(after.needsList[G.name]) = ids
             /\ after.adhoc = before.adhoc
             /\ after.individual = before.individual]_vars

\* a needs_list save of documents that the individual list of the request
\* already holds
C8_Witness ==
    /\ SaveOK(last)
    /\ last.args.section_type = "needs_list"
    /\ LET v == BuildView(selections, uploads, printGroups, last.out.request)
       IN /\ DOMAIN v.needsList = {AllNames[1]}
          /\ DocumentsOf(v.needsList[AllNames[1]]) = last.args.document_ids
          /\ DocumentsOf(v.individual) \cap last.args.document_ids # {}

----------------------------------------------------------------------------
(* The upload and review tracker, one handler at a time: the admin saves a  *)
(* list for one request, borrowers upload against its selections under      *)
(* either request id, the admin accepts or rejects.                         *)

\* the request whose list the admin saves here
ListedRequest == "r1"

\* the body the admin saves here: two catalogue documents, individually
UploadSaveBodies == {<<"individual", {1, 2}, NULL>>}

\* what a borrower posts to upload_user_file: a file the media host stores,
\* no file, a file the host answers with an HTTP error, a file it times out on
UploadBodies == {<<TRUE, "ok">>, <<FALSE, "ok">>, <<TRUE, "http_error">>,
                 <<TRUE, "timeout">>}

NextUploads ==
    \/ \E rid \in RequestIds : Homepage(rid)
    \/ \E b \in UploadSaveBodies :
            SaveAdminSelections(ListedRequest, b[1], b[2], b[3], "ok")
    \/ \E rid \in RequestIds, sel \in SelectionIds, b \in UploadBodies :
            UploadUserFile(rid, sel, b[1], b[2])
    \/ \E rid \in RequestIds, up \in UploadIds, ghl \in BOOLEAN :
            DeleteUserUpload(rid, up, ghl)
    \/ \E rid \in RequestIds, up \in UploadIds, a \in BOOLEAN :
            AcceptUserUpload(rid, up, a)

SpecUploads == Init /\ [][NextUploads]_vars

----------------------------------------------------------------------------
(* Properties of the upload and review tracker *)

\* the request id under which an upload is reached
UploadRequestId(u) ==
    LET s == CHOOSE s \in selections : s.id = u.admin_selection
        r == CHOOSE r \in requests : r.id = s.request
    IN r.request_id

\* C5: delete(requestId, U) of an upload with accepted = true is answered 403
\* and leaves the upload rows as they were; a delete(requestId, U) that
\* follows a successful setAccepted(requestId, U, false) is answered 200 and
\* removes U.
C5_AcceptedUploadNotDeleted ==
    [][/\ last'.op = "delete" =>
            \A u \in uploads :
                (/\ u.id = last'.args.upload_id
                 /\ UploadRequestId(u) = last'.rid
                 /\ u.accepted)
                => last'.status = 403 /\ uploads' = uploads
       /\ (/\ last.op = "accept" /\ last.status = 200
           /\ ~last.args.accepted
           /\ last'.op = "delete"
           /\ last'.rid = last.rid
           /\ last'.args.upload_id = last.args.upload_id)
          => /\ last'.status = 200
             /\ ~\E u \in uploads' : u.id = last.args.upload_id
             /\ \E u \in uploads : u.id = last.args.upload_id]_vars

\* the only upload ever made was accepted at some time and is now deleted
C5_Witness ==
    /\ last.op = "delete"
    /\ last.status = 200
    /\ last.args.upload_id = 1
    /\ seq.upload = 2
    /\ now > 1
    /\ uploads = {}

\* C6: in every step in which an upload row disappears, the upload had
\* accepted = false just before the step.
C6_DeletionOnlyFromPending ==
    [][\A u \in uploads :
            (~\E v \in uploads' : v.id = u.id) => ~u.accepted]_vars

----------------------------------------------------------------------------
(* Scoped entities: categories and print groups, global or owned by one     *)
(* request, created one handler at a time.                                  *)

\* create_category, lines 69 and 73: the handler's own duplicate check, among
\* the rows of the same scope only
NameTakenInScope(rows, name, owner) ==
    \E c \in rows : c.name = name /\ OwningRequest(c) = owner

\* create_category; request_id "" stands for a body without request_id
CreateCategory(name, request_id) ==
    LET scoped == request_id # ""
        g == GetOrCreate(requests, request_id, seq.request)
        owner == IF scoped THEN g.row.id ELSE NULL
        args == [name |-> name, request_id |-> request_id]
        status == IF name = "" THEN 400
                  ELSE IF NameTakenInScope(categories, name, owner) THEN 400
                  ELSE IF ~CategoryInsertOK(categories, name) THEN 500
                  ELSE 201
        touch == scoped /\ name # ""
        seq1 == IF touch /\ g.created THEN Bump(seq, "request", 1) ELSE seq
    IN
    /\ requests' = IF touch THEN g.rows ELSE requests
    /\ IF status = 201
       THEN /\ seq.category <= MaxScoped
            /\ categories' = categories \cup
                    {CategoryRow(seq.category, name, owner)}
            /\ seq' = Bump(seq1, "category", 1)
            /\ Answer(Response("create_category", request_id, 201, args,
                               [id |-> seq.category, owner |-> owner]))
       ELSE /\ categories' = categories
            /\ seq' = seq1
            /\ Answer(Response("create_category", request_id, status, args,
                               [owner |-> owner]))
    /\ UNCHANGED <<printGroups, documents, selections, uploads, now>>

\* create_needs_list_print_group: no duplicate check of its own, the INSERT
\* meets the table's constraint
CreateNeedsListPrintGroup(rid, name) ==
    LET g == GetOrCreate(requests, rid, seq.request)
        owner == g.row.id
        args == [name |-> name]
        status == IF name = "" THEN 400
                  ELSE IF ~PrintGroupInsertOK(printGroups, name) THEN 500
                  ELSE 201
        seq1 == IF g.created THEN Bump(seq, "request", 1) ELSE seq
    IN
    /\ requests' = g.rows
    /\ IF status = 201
       THEN /\ seq.print_group <= MaxScoped
            /\ printGroups' = printGroups \cup
                    {PrintGroupRow(seq.print_group, name, owner)}
            /\ seq' = Bump(seq1, "print_group", 1)
            /\ Answer(Response("create_print_group", rid, 201, args,
                               [id |-> seq.print_group, owner |-> owner]))
       ELSE /\ printGroups' = printGroups
            /\ seq' = seq1
            /\ Answer(Response("create_print_group", rid, status, args,
                               [owner |-> owner]))
    /\ UNCHANGED <<categories, documents, selections, uploads, now>>

NextScopes ==
    \/ \E rid \in RequestIds : Homepage(rid)
    \/ \E name \in Names \cup {""}, rid \in RequestIds \cup {""} :
            CreateCategory(name, rid)
    \/ \E rid \in RequestIds, name \in Names \cup {""} :
            CreateNeedsListPrintGroup(rid, name)

SpecScopes == Init /\ [][NextScopes]_vars

----------------------------------------------------------------------------
(* Properties of scoped entities *)

\* a row of any scope has the name
NameTakenAnywhere(rows, name) == \E c \in rows : c.name = name

\* the statuses of a conflict error
Conflict(status) == status \in {400, 403, 409}

\* C9: creating a category whose name an existing category of the same scope
\* has is answered with a conflict error and creates nothing; creating it
\* when only categories of other scopes have the name succeeds and adds a
\* second category of that name.
C9_CategoryScopedNames ==
    [][(last'.op = "create_category" /\ last'.args.name # "")
       => LET name == last'.args.name
              owner == last'.out.owner
          IN /\ NameTakenInScope(categories, name, owner)
                => Conflict(last'.status) /\ categories' = categories
             /\ (/\ ~NameTakenInScope(categories, name, owner)
                 /\ NameTakenAnywhere(categories, name))
                => /\ last'.status = 201
                   /\ Cardinality({c \in categories' : c.name = name}) =
                        Cardinality({c \in categories : c.name = name}) + 1
      ]_vars

\* C10: createNeedsListGroup(R, name) is answered with a conflict error when
\* R owns a print group of that name, succeeds when only global print groups
\* or print groups of other requests have the name, and no two print groups
\* of one scope ever share a name.
C10_PrintGroupScopedNames ==
    [][(last'.op = "create_print_group" /\ last'.args.name # "")
       => LET name == last'.args.name
              owner == last'.out.owner
          IN /\ NameTakenInScope(printGroups, name, owner)
                => Conflict(last'.status) /\ printGroups' = printGroups
             /\ ~NameTakenInScope(printGroups, name, owner)
                => last'.status = 201
             /\ \A g, h \in printGroups' :
                    (g.name = h.name /\ OwningRequest(g) = OwningRequest(h))
                    => g = h
      ]_vars

----------------------------------------------------------------------------
(* Requests served at the same time.  Every ORM statement is its own        *)
(* transaction (autocommit), so the statements of the requests in flight    *)
(* interleave; procs holds each request's position and local variables.     *)

NoBody == <<"none", {}, NULL>>

\* a request in flight: the view, its URL and body, the statement it is at,
\* how get_or_create resolved doc_request, and what it did so far
Proc(op, rid, body, pc, via, req) ==
    [op |-> op, rid |-> rid, body |-> body, pc |-> pc, via |-> via,
     req |-> req, status |-> 0, deleted |-> {}, created |-> {},
     document |-> NULL]

\* doc_request is bound: homepage renders, save_admin_selections and the
\* create handlers go on
Resolved(op, rid, body, via, req) ==
    IF op = "homepage"
    THEN [Proc(op, rid, body, "done", via, req) EXCEPT !.status = 200]
    ELSE IF op = "save" THEN Proc(op, rid, body, "delete", via, req)
    ELSE Proc(op, rid, body, "document", via, req)

\* get_or_create, first statement: the SELECT
Begin(op, rid, body) ==
    /\ Len(procs) < NProc
    /\ LET found == Lookup(requests, rid) IN
       procs' = Append(procs,
            IF found = {}
            THEN Proc(op, rid, body, "insert", "", NULL)
            ELSE Resolved(op, rid, body, "get",
                          (CHOOSE r \in found : TRUE).id))
    /\ UNCHANGED <<tables, seq, now, last>>

\* get_or_create after DoesNotExist: the INSERT, refused with IntegrityError
\* when another request inserted the request_id meanwhile
GetOrCreateInsert(p) ==
    LET me == procs[p] IN
    /\ me.pc = "insert"
    /\ IF InsertRequestOK(requests, me.rid)
       THEN /\ requests' = requests \cup
                    {DocumentRequestRow(seq.request, me.rid)}
            /\ seq' = Bump(seq, "request", 1)
            /\ procs' = [procs EXCEPT ![p] =
                    Resolved(me.op, me.rid, me.body, "insert", seq.request)]
       ELSE /\ procs' = [procs EXCEPT ![p].pc = "reget"]
            /\ UNCHANGED <<requests, seq>>
    /\ UNCHANGED <<categories, printGroups, documents, selections, uploads,
                   now, last>>

\* get_or_create after IntegrityError: the second SELECT
GetOrCreateReget(p) ==
    LET me == procs[p]
        found == Lookup(requests, me.rid)
    IN
    /\ me.pc = "reget"
    /\ procs' = [procs EXCEPT ![p] =
            Resolved(me.op, me.rid, me.body, "reget",
                     (CHOOSE r \in found : TRUE).id)]
    /\ UNCHANGED <<tables, seq, now, last>>

\* save_admin_selections, lines 1081-1112: validation, which reads the body
\* and tables no request of this specification writes, then the DELETE
SaveDeleteStep(p) ==
    LET me == procs[p]
        status == SaveValidate(me.body[1], me.body[2], me.body[3],
                               documents, printGroups)
        old == SaveDelete(selections, me.req, me.body[1], me.body[3])
    IN
    /\ me.pc = "delete"
    /\ IF status # 0
       THEN /\ procs' = [procs EXCEPT ![p].pc = "done", ![p].status = status]
            /\ UNCHANGED <<selections, uploads>>
       ELSE /\ selections' = selections \ old
            /\ uploads' = CascadeUploads(uploads, old)
            /\ procs' = [procs EXCEPT ![p].pc = "create", ![p].deleted = old]
    /\ UNCHANGED <<requests, categories, printGroups, documents, seq, now,
                   last>>

\* lines 1116-1128: the atomic block, committed whole or rolled back whole
SaveCreateStep(p) ==
    LET me == procs[p]
        new == SaveNewRows(documents, me.body[2], me.req, me.body[1],
                           me.body[3], seq.selection)
    IN
    /\ me.pc = "create"
    /\ seq.selection + Cardinality(new) - 1 <= MaxSelections
    /\ IF SaveInsertOK(selections, new)
       THEN /\ selections' = selections \cup new
            /\ seq' = Bump(seq, "selection", Cardinality(new))
            /\ procs' = [procs EXCEPT ![p].pc = "done", ![p].status = 201,
                                      ![p].created = {n.id : n \in new}]
       ELSE /\ procs' = [procs EXCEPT ![p].pc = "done", ![p].status = 500]
            /\ UNCHANGED <<selections, seq>>
    /\ UNCHANGED <<requests, categories, printGroups, documents, uploads,
                   now, last>>

ConcurrentBodies ==
    {<<"individual", {1, 2}, NULL>>, <<"individual", {2}, NULL>>,
     <<"needs_list", {1, 2}, 1>>, <<"needs_list", {2}, 1>>,
     <<"needs_list", {}, 1>>}

NextConcurrent ==
    \/ \E rid \in RequestIds : Begin("homepage", rid, NoBody)
    \/ \E body \in ConcurrentBodies : Begin("save", ListedRequest, body)
    \/ \E p \in DOMAIN procs : GetOrCreateInsert(p)
    \/ \E p \in DOMAIN procs : GetOrCreateReget(p)
    \/ \E p \in DOMAIN procs : SaveDeleteStep(p)
    \/ \E p \in DOMAIN procs : SaveCreateStep(p)

SpecConcurrent == Init /\ [][NextConcurrent]_vars

----------------------------------------------------------------------------
(* Properties of requests served at the same time *)

\* C1: however many requests resolve or create the same request_id at the
\* same time, one DocumentRequest row of that request_id exists afterwards
\* and every one of them got that row.
C1_ResolveOrCreateOnce ==
    /\ \A rid \in RequestIds : Cardinality(Lookup(requests, rid)) <= 1
    /\ \A p \in DOMAIN procs :
            procs[p].via # ""
            => Lookup(requests, procs[p].rid) =
                    {DocumentRequestRow(procs[p].req, procs[p].rid)}
C1_Witness ==
    \E p, q \in DOMAIN procs :
        /\ procs[p].rid = procs[q].rid
        /\ procs[p].via = "insert"
        /\ procs[q].via = "reget"
        /\ procs[p].req = procs[q].req
        /\ Cardinality(Lookup(requests, procs[p].rid)) = 1

\* in flight between its DELETE and its atomic block
Replacing(p) == procs[p].op = "save" /\ procs[p].pc = "create"

\* every document of the set is selected in the section
AllSelected(req, sec, ids) ==
    \A d \in ids : \E s \in SectionOf(selections, req, sec) : s.document = d

\* C3: replacing a section is one atomic unit: no state shows the old
\* selections removed and the new ones not all present, and a replacement
\* whose creating fails leaves the old selections in place.
C3_ReplaceIsAtomic ==
    \A p \in DOMAIN procs :
        /\ (Replacing(p) /\ procs[p].deleted # {})
            => AllSelected(procs[p].req, procs[p].body[1], procs[p].body[2])
        /\ (procs[p].op = "save" /\ procs[p].status = 500)
            => procs[p].deleted \subseteq selections

\* the saves of the same request and section
SavesOf(rid, sec) ==
    {p \in DOMAIN procs : /\ procs[p].op = "save"
                          /\ procs[p].rid = rid
                          /\ procs[p].body[1] = sec
                          /\ procs[p].body[2] # {}}

\* C4: when two replacements of the same request and section, with sets A
\* and B, run at the same time and both have answered, both succeeded and
\* the section holds exactly A or exactly B, each document once.
C4_ConcurrentReplaceSerializes ==
    \A p, q \in DOMAIN procs :
        (/\ p # q
         /\ procs[p].body[2] # procs[q].body[2]
         /\ SavesOf(procs[p].rid, procs[p].body[1]) = {p, q}
         /\ procs[p].pc = "done" /\ procs[q].pc = "done")
        => /\ procs[p].status = 201 /\ procs[q].status = 201
           /\ \/ SelectedExactly(selections, procs[p].req, procs[p].body[1],
                                 procs[p].body[2])
              \/ SelectedExactly(selections, procs[q].req, procs[q].body[1],
                                 procs[q].body[2])

----------------------------------------------------------------------------
(* Further properties of the selection engine *)

\* the (request, section_type, document, print_group) bindings of the rows
Bindings(sels) ==
    {<<s.request, s.section_type, s.document, s.print_group>> : s \in sels}

\* C13: in every reachable state no two AdminDocumentSelection rows have the
\* same (request, section_type, document, print_group), rows without a
\* print_group included.
C13_SelectionTupleUnique ==
    \A s, t \in selections :
        (/\ s.request = t.request
         /\ s.section_type = t.section_type
         /\ s.document = t.document
         /\ s.print_group = t.print_group)
        => s = t

\* C14: a selection carries a print_group if and only if its section_type is
\* needs_list; a save of adhoc or individual with a print_group_id stores
\* rows without print_group.
C14_PrintGroupOnlyInNeedsList ==
    \A s \in selections :
        (s.print_group # NULL) <=> (s.section_type = "needs_list")

\* C16: a successful replaceSection(R, S, ids, G) that follows a successful
\* replaceSection with the same arguments leaves the bindings of the request
\* as the first one left them, and no binding twice.
C16_ResaveIdempotent ==
    [][(/\ SaveOK(last) /\ SaveOK(last')
        /\ last'.rid = last.rid
        /\ last'.args.section_type = last.args.section_type
        /\ last'.args.document_ids = last.args.document_ids
        /\ last'.args.print_group_id = last.args.print_group_id)
       => /\ Bindings(selections') = Bindings(selections)
          /\ Cardinality(selections') = Cardinality(Bindings(selections'))
      ]_vars

\* a save has just replaced rows of the very documents and print group it
\* was given
C16_Witness ==
    /\ SaveOK(last)
    /\ last.out.deleted # {}
    /\ {s.document : s \in last.out.deleted} = last.args.document_ids
    /\ \A s \in last.out.deleted :
            s.print_group = last.args.print_group_id

----------------------------------------------------------------------------
(* Further properties of the upload and review tracker *)

\* accepted_at is present exactly when accepted is true
Stamped(u) == (u.accepted_at # NULL) <=> u.accepted

\* C18: for every upload accepted_at is present if and only if accepted is
\* true: a new upload has neither, setAccepted(true) sets both and
\* setAccepted(false) clears both.
C18_AcceptedAtIffAccepted ==
    [][/\ \A u \in uploads' : Stamped(u)
       /\ (last'.op = "upload" /\ last'.status = 201)
          => \E u \in uploads' \ uploads :
                /\ u.id = last'.out.upload_id
                /\ ~u.accepted /\ u.accepted_at = NULL
       /\ (last'.op = "accept" /\ last'.status = 200)
          => \E u \in uploads' :
                /\ u.id = last'.args.upload_id
                /\ u.accepted = last'.args.accepted
                /\ Stamped(u)
      ]_vars

\* an upload that was accepted at some time has just been rejected
C18_Witness ==
    /\ last.op = "accept" /\ last.status = 200
    /\ ~last.args.accepted
    /\ now > 1
    /\ \E u \in uploads : u.id = last.args.upload_id /\ u.accepted_at = NULL

\* C19: setAccepted(R, U, true) on an upload that is already accepted leaves
\* accepted and accepted_at of the upload as they were.
C19_ReacceptIdempotent ==
    [][(last'.op = "accept" /\ last'.status = 200 /\ last'.args.accepted)
       => \A u \in uploads :
            (u.id = last'.args.upload_id /\ u.accepted) => u \in uploads'
      ]_vars

\* C17: an upload row is created only after the media host confirmed the
\* store call: when the call fails or times out the upload is answered with
\* an error and the upload rows stay as they were, and every upload row
\* carries the fileId a successful store call returned.
C17_RowOnlyAfterStoreConfirmed ==
    [][/\ (last'.op = "upload" /\ last'.args.ghl # "ok")
          => last'.status >= 400 /\ uploads' = uploads
       /\ \A u \in uploads' :
            (~\E v \in uploads : v.id = u.id)
            => /\ last'.op = "upload" /\ last'.args.ghl = "ok"
               /\ u.ghl_file_id = "file"
       /\ \A u \in uploads' : u.ghl_file_id # ""
      ]_vars

\* the media host has just refused a file of a selection that has an upload
C17_Witness ==
    /\ last.op = "upload" /\ last.status = 502
    /\ last.args.ghl = "http_error"
    /\ \E u \in uploads : u.admin_selection = last.args.selection_id

\* C20: a failure of the CRM notification, error or timeout, does not change
\* the outcome of replaceSection: the save is answered 201 with the created
\* selections, the section holds exactly the documents of the body with its
\* print group, and the other sections are as they were.
C20_NotificationFailureSwallowed ==
    [][(/\ last'.op = "save" /\ last'.args.crm # "ok"
        /\ SaveValidate(last'.args.section_type, last'.args.document_ids,
                        last'.args.print_group_id, documents, printGroups) = 0)
       => /\ last'.status = 201
          /\ LET req == last'.out.request
                 sec == last'.args.section_type
             IN /\ SelectedExactly(selections', req, sec,
                                   last'.args.document_ids)
                /\ last'.out.selections =
                        {s.id : s \in SectionOf(selections', req, sec)}
                /\ \A s \in SectionOf(selections', req, sec) :
                        s.print_group = last'.args.print_group_id
                /\ selections' \ SectionOf(selections', req, sec) =
                        selections \ SectionOf(selections, req, sec)
      ]_vars

\* a save whose notification timed out replaced a section that had rows
C20_Witness ==
    /\ SaveOK(last)
    /\ last.args.crm = "timeout"
    /\ last.out.deleted # {}
    /\ SectionOf(selections, last.out.request, last.args.section_type) # {}

----------------------------------------------------------------------------
(* Custom documents: a request-scoped Document made together with its       *)
(* selection, and the removal of an adhoc one.                              *)

\* create_adhoc_document lines 809-815, create_needs_list_document lines
\* 971-982: the status of the early return, or 0.  needs_group tells the
\* handler that takes print_group_id from the others.
CustomValidate(name, description, category_id, print_group_id, needs_group, cats, pgs) ==
    IF name = "" \/ description = "" \/ category_id = NULL THEN 400
    ELSE IF needs_group /\ print_group_id = NULL THEN 400
    ELSE IF ~\E c \in cats : c.id = category_id THEN 404
    ELSE IF needs_group /\ ~\E g \in pgs : g.id = print_group_id THEN 404
    ELSE 0

\* the two rows the handler creates: the document owned by the request and
\* its selection in the handler's section
NewCustomRowsIndividual(sec, req, name, category_id, pg, doc_id, sel_id) ==
    [document |-> DocumentRow(doc_id, name, category_id, req),
     selection |-> AdminDocumentSelectionRow(sel_id, req, "individual",
                                             doc_id, pg)]
NewCustomRows(sec, req, name, category_id, pg, doc_id, sel_id) ==
    [document |-> DocumentRow(doc_id, name, category_id, req),
     selection |-> AdminDocumentSelectionRow(sel_id, req, sec, doc_id, pg)]

\* create_adhoc_document, create_individual_document and
\* create_needs_list_document run alone.  The membership of the document in
\* the print group (document.print_groups.add) is a table no definition here
\* reads.
CreateCustomDocument(op, sec, rid, name, description, category_id, print_group_id) ==
    LET g == GetOrCreate(requests, rid, seq.request)
        req == g.row.id
        needs_group == sec = "needs_list"
        pg == IF needs_group THEN print_group_id ELSE NULL
        status == CustomValidate(name, description, category_id,
                                 print_group_id, needs_group, categories,
                                 printGroups)
        new == NewCustomRows(sec, req, name, category_id, pg, seq.document,
                             seq.selection)
        args == [name |-> name, description |-> description,
                 category_id |-> category_id,
                 print_group_id |-> print_group_id]
        seq1 == IF g.created THEN Bump(seq, "request", 1) ELSE seq
    IN
    /\ requests' = g.rows
    /\ IF status # 0
       THEN /\ Answer(Response(op, rid, status, args, [request |-> req]))
            /\ seq' = seq1
            /\ UNCHANGED <<documents, selections>>
       ELSE /\ seq.document <= MaxDocuments
            /\ seq.selection <= MaxSelections
            /\ documents' = documents \cup {new.document}
            /\ selections' = selections \cup {new.selection}
            /\ seq' = Bump(Bump(seq1, "document", 1), "selection", 1)
            /\ Answer(Response(op, rid, 201, args,
                    [request |-> req, selection_id |-> new.selection.id,
                     document |-> new.document.id]))
    /\ UNCHANGED <<categories, printGroups, uploads, now>>

CreateAdhocDocument(rid, name, description, category_id) ==
    CreateCustomDocument("create_adhoc", "adhoc", rid, name, description,
                         category_id, NULL)

CreateIndividualDocument(rid, name, description, category_id) ==
    CreateCustomDocument("create_individual", "individual", rid, name,
                         description, category_id, NULL)

CreateNeedsListDocument(rid, name, description, category_id, print_group_id) ==
    CreateCustomDocument("create_needs_list", "needs_list", rid, name,
                         description, category_id, print_group_id)

\* delete_adhoc_document, line 1052: if document.request_id
DocumentNeverScoped(doc) == FALSE
DocumentIsScoped(doc) == OwningRequest(doc) # NULL

\* delete_adhoc_document.  selection.delete() takes the uploads of the row
\* along; document.delete() takes every selection of the document along
\* (AdminDocumentSelection.document is on_delete=CASCADE) and their uploads.
DeleteAdhocDocument(rid, selection_id) ==
    LET reqs == Lookup(requests, rid)
        req == (CHOOSE r \in reqs : TRUE).id
        found == {s \in SectionOf(selections, req, "adhoc") :
                    s.id = selection_id}
        selection == CHOOSE s \in found : TRUE
        document == CHOOSE d \in documents : d.id = selection.document
        scoped == DocumentIsScoped(document)
        others == IF scoped
                  THEN {s \in selections \ {selection} :
                            s.document = document.id}
                  ELSE {}
        args == [selection_id |-> selection_id]
        status == IF reqs = {} THEN 404
                  ELSE IF found = {} THEN 500
                  ELSE 200
    IN
    /\ IF status = 200
       THEN /\ selections' = selections \ ({selection} \cup others)
            /\ uploads' = CascadeUploads(uploads, {selection} \cup others)
            /\ documents' = IF scoped THEN documents \ {document}
                            ELSE documents
            /\ Answer(Response("delete_adhoc", rid, 200, args,
                    [request |-> req, document |-> document.id,
                     scoped |-> scoped, cascaded |-> others]))
       ELSE /\ Answer(Response("delete_adhoc", rid, status, args, <<>>))
            /\ UNCHANGED <<documents, selections, uploads>>
    /\ UNCHANGED <<requests, categories, printGroups, seq, now>>

\* a category id no row has
NoCategory == Cardinality(SeedCategories) + 1

\* bodies posted to the create handlers: a complete one, one for each missing
\* field and one with a category that does not exist
CustomBodies ==
    {<<"W2", "d", 1>>, <<"", "d", 1>>, <<"W2", "", 1>>, <<"W2", "d", NULL>>,
     <<"W2", "d", NoCategory>>}

\* the first custom document gets the id that follows the catalogue's
FirstCustom == Cardinality(SeedDocuments) + 1

\* adhoc documents of one request: made, selected a second time by a save,
\* uploaded to and removed, next to a catalogue document put into the adhoc
\* section
NextAdhoc ==
    \/ \E b \in {<<"W2", "d", 1>>, <<"W2", "d", NoCategory>>} :
            CreateAdhocDocument(ListedRequest, b[1], b[2], b[3])
    \/ SaveAdminSelections(ListedRequest, "adhoc", {1}, NULL, "ok")
    \/ SaveAdminSelections(ListedRequest, "individual", {FirstCustom}, NULL,
                           "ok")
    \/ \E sel \in SelectionIds :
            UploadUserFile(ListedRequest, sel, TRUE, "ok")
    \/ \E rid \in RequestIds, sel \in SelectionIds :
            DeleteAdhocDocument(rid, sel)

SpecAdhoc == Init /\ [][NextAdhoc]_vars

----------------------------------------------------------------------------
(* Properties of custom documents *)

\* every entry of a view, whatever its section
Entries(view) ==
    {view.adhoc[i] : i \in DOMAIN view.adhoc}
    \cup {view.individual[i] : i \in DOMAIN view.individual}
    \cup UNION {{view.needsList[n][i] : i \in DOMAIN view.needsList[n]} :
                    n \in DOMAIN view.needsList}

\* C11: deleteAdhoc(R, s) on an adhoc selection of a request-scoped document
\* removes s, the document and every other selection and upload of the
\* document, and buildView(R) has no entry of the document afterwards; on an
\* adhoc selection of a global document it removes s and the uploads of s
\* only and the document stays.
C11_DeleteAdhocCascade ==
    [][(last'.op = "delete_adhoc" /\ last'.status = 200)
       => LET sel == CHOOSE s \in selections :
                        s.id = last'.args.selection_id
              doc == CHOOSE d \in documents : d.id = sel.document
              ofDoc == {s \in selections : s.document = doc.id}
              view == BuildView(selections', uploads', printGroups',
                                last'.out.request)
          IN IF OwningRequest(doc) # NULL
             THEN /\ documents' = documents \ {doc}
                  /\ selections' = selections \ ofDoc
                  /\ uploads' = {u \in uploads :
                        ~\E s \in ofDoc : s.id = u.admin_selection}
                  /\ ~\E e \in Entries(view) : e.document_id = doc.id
             ELSE /\ documents' = documents
                  /\ selections' = selections \ {sel}
                  /\ uploads' = {u \in uploads : u.admin_selection # sel.id}
      ]_vars

\* an adhoc document was removed together with a second selection of it that
\* had an upload
C11_Witness ==
    /\ last.op = "delete_adhoc" /\ last.status = 200
    /\ last.out.scoped
    /\ last.out.cascaded # {}
    /\ seq.upload > 1
    /\ uploads = {}

\* C12: for a request without selections createAdhoc(R, name, description,
\* categoryId) makes buildView(R) hold one adhoc entry, of a document of that
\* name, without uploads, and empty individual and needsList parts; every
\* successful upload to an adhoc selection adds one upload to its entry, and
\* the new upload has accepted = false.
C12_AdhocEntryAndUploads ==
    [][/\ (/\ last'.op = "create_adhoc" /\ last'.status = 201
           /\ ~\E s \in selections : s.request = last'.out.request)
          => LET view == BuildView(selections', uploads', printGroups',
                                   last'.out.request)
             IN /\ Cardinality(DOMAIN view.adhoc) = 1
                /\ view.adhoc[1].uploads = {}
                /\ \E d \in documents' :
                        /\ d.id = view.adhoc[1].document_id
                        /\ d.name = last'.args.name
                /\ DOMAIN view.individual = {}
                /\ DOMAIN view.needsList = {}
       /\ (last'.op = "upload" /\ last'.status = 201)
          => \A s \in selections :
                (s.id = last'.args.selection_id /\ s.section_type = "adhoc")
                => LET before == BuildView(selections, uploads, printGroups,
                                           s.request)
                       after == BuildView(selections', uploads', printGroups',
                                          s.request)
                   IN \E i \in DOMAIN after.adhoc :
                        /\ after.adhoc[i].selection_id = s.id
                        /\ before.adhoc[i].selection_id = s.id
                        /\ \E u \in after.adhoc[i].uploads :
                            /\ ~u.accepted
                            /\ u \notin before.adhoc[i].uploads
                            /\ after.adhoc[i].uploads =
                                    before.adhoc[i].uploads \cup {u}
      ]_vars

\* the adhoc entry of a custom document holds two uploads
C12_Witness ==
    /\ last.op = "upload" /\ last.status = 201
    /\ \E s \in selections :
        /\ s.section_type = "adhoc"
        /\ s.document >= FirstCustom
        /\ Cardinality({u \in uploads : u.admin_selection = s.id}) = 2

----------------------------------------------------------------------------
(* Custom documents made while other requests are served: the handlers run  *)
(* Document.objects.create and AdminDocumentSelection.objects.create as two *)
(* statements, each its own transaction.                                    *)

\* the section of each create handler
CustomSection(op) ==
    IF op = "create_adhoc" THEN "adhoc"
    ELSE IF op = "create_individual" THEN "individual"
    ELSE "needs_list"

\* validation, which reads the body and tables no request of this
\* specification writes, then Document.objects.create
CreateDocumentStep(p) ==
    LET me == procs[p]
        sec == CustomSection(me.op)
        status == CustomValidate(me.body[1], me.body[2], me.body[3],
                                 me.body[4], sec = "needs_list", categories,
                                 printGroups)
        new == NewCustomRows(sec, me.req, me.body[1], me.body[3], NULL,
                             seq.document, NULL)
    IN
    /\ me.pc = "document"
    /\ IF status # 0
       THEN /\ procs' = [procs EXCEPT ![p].pc = "done", ![p].status = status]
            /\ UNCHANGED <<documents, seq>>
       ELSE /\ seq.document <= MaxDocuments
            /\ documents' = documents \cup {new.document}
            /\ seq' = Bump(seq, "document", 1)
            /\ procs' = [procs EXCEPT ![p].pc = "selection",
                                      ![p].document = seq.document]
    /\ UNCHANGED <<requests, categories, printGroups, selections, uploads,
                   now, last>>

\* AdminDocumentSelection.objects.create, then the 201 answer
CreateSelectionStep(p) ==
    LET me == procs[p]
        sec == CustomSection(me.op)
        new == NewCustomRows(sec, me.req, me.body[1], me.body[3],
                             IF sec = "needs_list" THEN me.body[4] ELSE NULL,
                             me.document, seq.selection)
    IN
    /\ me.pc = "selection"
    /\ seq.selection <= MaxSelections
    /\ selections' = selections \cup {new.selection}
    /\ seq' = Bump(seq, "selection", 1)
    /\ procs' = [procs EXCEPT ![p].pc = "done", ![p].status = 201,
                              ![p].created = {seq.selection}]
    /\ UNCHANGED <<requests, categories, printGroups, documents, uploads,
                   now, last>>

CreatingBodies ==
    {<<"create_adhoc", <<"W2", "d", 1, NULL>>>>,
     <<"create_adhoc", <<"", "d", 1, NULL>>>>,
     <<"create_individual", <<"W2", "d", 1, NULL>>>>,
     <<"create_needs_list", <<"W2", "d", 1, 1>>>>,
     <<"create_needs_list", <<"W2", "d", 1, NoPrintGroup>>>>}

NextCreating ==
    \/ \E rid \in RequestIds : Begin("homepage", rid, NoBody)
    \/ \E rid \in RequestIds, b \in CreatingBodies : Begin(b[1], rid, b[2])
    \/ \E p \in DOMAIN procs : GetOrCreateInsert(p)
    \/ \E p \in DOMAIN procs : GetOrCreateReget(p)
    \/ \E p \in DOMAIN procs : CreateDocumentStep(p)
    \/ \E p \in DOMAIN procs : CreateSelectionStep(p)

SpecCreating == Init /\ [][NextCreating]_vars

\* C15: createAdhoc, createIndividual and createNeedsListDocument create the
\* request-scoped document and its selection atomically: in no state does a
\* document made by one of them exist without its selection.
C15_DocumentWithSelection ==
    \A d \in documents :
        OwningRequest(d) # NULL => \E s \in selections : s.document = d.id

----------------------------------------------------------------------------
(* The four operations that make selections, one handler at a time *)

EngineSaveBodies == SECTION_CHOICES \X {{1, 2}} \X {NULL, 1}

NextEngine ==
    \/ \E rid \in RequestIds, b \in CustomBodies :
            CreateAdhocDocument(rid, b[1], b[2], b[3])
    \/ \E b \in CustomBodies :
            CreateIndividualDocument(ListedRequest, b[1], b[2], b[3])
    \/ \E b \in CustomBodies, pg \in {NULL, 1, NoPrintGroup} :
            CreateNeedsListDocument(ListedRequest, b[1], b[2], b[3], pg)
    \/ \E b \in EngineSaveBodies :
            SaveAdminSelections(ListedRequest, b[1], b[2], b[3], "ok")

SpecEngine == Init /\ [][NextEngine]_vars

----------------------------------------------------------------------------
(* Properties of the CRM notification *)

\* lines 1177-1179: update_opportunity_custom_fields is called when there is
\* a custom field to send
Notified(r) ==
    r.op = "save" /\ r.status = 201 /\ r.out.notification # {}

\* the numbered list a notification carries, empty when it carries none
ItemsOf(r) ==
    IF \E f \in r.out.notification : f.id = "needs_list_items"
    THEN (CHOOSE f \in r.out.notification :
                f.id = "needs_list_items").field_value
    ELSE <<>>

\* C21: a CRM notification is issued only after a successful replaceSection
\* of the individual or the needs_list section, with the new selections in
\* the store: none is issued for a replaceSection of the adhoc section.
C21_NotifiedSectionsOnly ==
    [][Notified(last')
       => /\ last'.args.section_type \in {"individual", "needs_list"}
          /\ \A id \in last'.out.selections :
                \E s \in selections' : s.id = id
      ]_vars

----------------------------------------------------------------------------
(* Borrower-facing read paths *)

\* the needs-list groups in the order the surface gets them: the PDF loops
\* over sorted(needs_list_docs.items()) (line 530), the pages are handed the
\* dict as _build_request_document_data made it
GroupsShown(page, sels, pgs, req) ==
    LET keys == GroupKeys(sels, pgs, req) IN
    IF page = "pdf" THEN SortedKeys({keys[i] : i \in DOMAIN keys})
    ELSE keys

\* what a read path does with the request id: DocumentRequest.objects.get,
\* and on DoesNotExist either the request_not_found page or Http404
ReadPath(op, rid, page, missing_status, missing_page) ==
    LET reqs == Lookup(requests, rid) IN
    /\ IF reqs = {}
       THEN Answer(Response(op, rid, missing_status, <<>>,
                            [page |-> missing_page]))
       ELSE Answer(Response(op, rid, 200, <<>>,
                [page |-> page,
                 view |-> BuildView(selections, uploads, printGroups,
                                    (CHOOSE r \in reqs : TRUE).id),
                 groups |-> GroupsShown(page, selections, printGroups,
                                        (CHOOSE r \in reqs : TRUE).id)]))
    /\ UNCHANGED <<tables, seq, now>>

\* user_upload_page
UserUploadPage(rid) ==
    ReadPath("user_upload_page", rid, "user_upload", 200, "request_not_found")

\* user_documents_view
UserDocumentsView(rid) ==
    ReadPath("user_documents_view", rid, "user_documents_view", 200,
             "request_not_found")

\* download_request_pdf, lines 476-479: raise Http404("Request not found")
DownloadRequestPdf(rid) ==
    ReadPath("download_request_pdf", rid, "pdf", 404, "404")

NextReads ==
    \/ \E rid \in RequestIds : Homepage(rid)
    \/ \E b \in UploadSaveBodies :
            SaveAdminSelections(ListedRequest, b[1], b[2], b[3], "ok")
    \/ \E sel \in SelectionIds :
            UploadUserFile(ListedRequest, sel, TRUE, "ok")
    \/ \E rid \in RequestIds : UserUploadPage(rid)
    \/ \E rid \in RequestIds : UserDocumentsView(rid)
    \/ \E rid \in RequestIds : DownloadRequestPdf(rid)

SpecReads == Init /\ [][NextReads]_vars

\* C23: the upload page, the documents status view and the PDF export, asked
\* for a request id without a DocumentRequest row, answer with the "list not
\* ready" page, not with an error, and create no DocumentRequest row.
C23_ReadsDegradeWhenAbsent ==
    [][(/\ last'.op \in {"user_upload_page", "user_documents_view",
                         "download_request_pdf"}
        /\ Lookup(requests, last'.rid) = {})
       => /\ last'.status = 200
          /\ last'.out.page = "request_not_found"
          /\ requests' = requests
      ]_vars

----------------------------------------------------------------------------
(* Listings: what the API and the admin pages offer for a request *)

\* Q(request__isnull=True) | Q(request__request_id=request_id)
Visible(rows, reqs, rid) ==
    {x \in rows : \/ OwningRequest(x) = NULL
                  \/ \E r \in Lookup(reqs, rid) : OwningRequest(x) = r.id}

\* get_categories, get_documents, get_print_groups: the filter is applied
\* when request_id is given ("" stands for a query without it)
Listing(rows, reqs, request_id) ==
    IF request_id # "" THEN Visible(rows, reqs, request_id) ELSE rows

GetCategories(request_id) ==
    /\ Answer(Response("get_categories", request_id, 200, <<>>,
                [categories |-> Listing(categories, requests, request_id)]))
    /\ UNCHANGED <<tables, seq, now>>

GetDocuments(request_id) ==
    /\ Answer(Response("get_documents", request_id, 200, <<>>,
                [documents |-> Listing(documents, requests, request_id)]))
    /\ UNCHANGED <<tables, seq, now>>

GetPrintGroups(request_id) ==
    /\ Answer(Response("get_print_groups", request_id, 200, <<>>,
                [print_groups |-> Listing(printGroups, requests, request_id)]))
    /\ UNCHANGED <<tables, seq, now>>

\* needs_list_page: categories are filtered to the request, print_groups is
\* PrintGroup.objects.all() (line 666)
NeedsListPage(rid) ==
    LET g == GetOrCreate(requests, rid, seq.request) IN
    /\ requests' = g.rows
    /\ seq' = IF g.created THEN Bump(seq, "request", 1) ELSE seq
    /\ Answer(Response("needs_list_page", rid, 200, <<>>,
                [categories |-> Visible(categories, g.rows, rid),
                 print_groups |-> printGroups]))
    /\ UNCHANGED <<categories, printGroups, documents, selections, uploads,
                   now>>

NextVisible ==
    \/ \E rid \in RequestIds, name \in {"Bank", "W2"} :
            CreateCategory(name, rid)
    \/ \E rid \in RequestIds, name \in {"Bank", "W2"} :
            CreateNeedsListPrintGroup(rid, name)
    \/ \E rid \in RequestIds : CreateAdhocDocument(rid, "W2", "d", 1)
    \/ \E rid \in RequestIds \cup {""} : GetCategories(rid)
    \/ \E rid \in RequestIds \cup {""} : GetDocuments(rid)
    \/ \E rid \in RequestIds \cup {""} : GetPrintGroups(rid)
    \/ \E rid \in RequestIds : NeedsListPage(rid)

SpecVisible == Init /\ [][NextVisible]_vars

\* the table a field of a listing is taken from
TableOf(kind) ==
    IF kind = "categories" THEN categories
    ELSE IF kind = "documents" THEN documents
    ELSE printGroups

\* C24: the categories, print groups and documents offered for request R,
\* by the listings asked with R's id and by the admin pages of R, are the
\* global ones and those R owns: none owned by another request.
C24_OfferedAreGlobalOrOwn ==
    [][(/\ last'.op \in {"get_categories", "get_documents",
                         "get_print_groups", "needs_list_page"}
        /\ last'.rid # "")
       => \A kind \in DOMAIN last'.out :
            last'.out[kind] =
                {x \in TableOf(kind)' :
                    \/ OwningRequest(x) = NULL
                    \/ \E r \in requests' :
                        r.request_id = last'.rid /\ OwningRequest(x) = r.id}
      ]_vars

----------------------------------------------------------------------------
(* Bulk saves of several sections of two requests, valid and invalid, with  *)
(* uploads attached to the selections.                                      *)

SavesBodies ==
    {<<"individual", {1}, NULL>>, <<"needs_list", {1}, 1>>,
     <<"other", {1}, NULL>>, <<"individual", {1, NoDocument}, NULL>>,
     <<"needs_list", {1}, NoPrintGroup>>, <<"needs_list", {1}, NULL>>}

OtherRequest == CHOOSE rid \in RequestIds : rid # ListedRequest

NextSaves ==
    \/ \E b \in SavesBodies :
            SaveAdminSelections(ListedRequest, b[1], b[2], b[3], "ok")
    \/ SaveAdminSelections(OtherRequest, "individual", {1}, NULL, "ok")
    \/ \E rid \in RequestIds, sel \in SelectionIds :
            UploadUserFile(rid, sel, TRUE, "ok")
    \/ \E up \in UploadIds : AcceptUserUpload(ListedRequest, up, TRUE)

SpecSaves == Init /\ [][NextSaves]_vars

\* the uploads attached to the rows
UploadsOf(ups, rows) ==
    {u \in ups : \E s \in rows : s.id = u.admin_selection}

\* C25: after a successful replaceSection(R, S, ...) every selection of
\* (R, S) has no upload: the uploads of the section's previous selections,
\* pending or accepted, of documents that stay selected too, are gone.
C25_ResaveDiscardsUploads ==
    [][SaveOK(last')
       => LET req == last'.out.request
              sec == last'.args.section_type
          IN /\ UploadsOf(uploads', SectionOf(selections', req, sec)) = {}
             /\ \A u \in UploadsOf(uploads, SectionOf(selections, req, sec)) :
                    ~\E v \in uploads' : v.id = u.id
      ]_vars

\* a save that re-selects documents of the section, made after files were
\* uploaded and accepted, has left no upload
C25_Witness ==
    /\ SaveOK(last)
    /\ \E s \in last.out.deleted : s.document \in last.args.document_ids
    /\ seq.upload > 1
    /\ now > 1
    /\ uploads = {}

\* the body is one that save_admin_selections must refuse
InvalidBody(args, docs, pgs) ==
    \/ args.section_type \notin {"adhoc", "individual", "needs_list"}
    \/ \E id \in args.document_ids : ~\E d \in docs : d.id = id
    \/ args.print_group_id # NULL
        /\ ~\E g \in pgs : g.id = args.print_group_id
    \/ args.section_type = "needs_list" /\ args.print_group_id = NULL

\* C28: a replaceSection with an invalid section type, a document id or a
\* print group id that resolves to no row, or no print group for needs_list
\* fails, and no selection and no upload is deleted or created.
C28_FailedSaveChangesNothing ==
    [][(last'.op = "save" /\ InvalidBody(last'.args, documents, printGroups))
       => /\ last'.status \in {400, 404}
          /\ selections' = selections
          /\ uploads' = uploads
      ]_vars

\* a save was refused for a section that has selections and uploads
C28_Witness ==
    /\ last.op = "save" /\ last.status = 404
    /\ \E r \in Lookup(requests, last.rid) :
        UploadsOf(uploads, SectionOf(selections, r.id,
                                     last.args.section_type)) # {}

\* C29: replaceSection(R, S, ...) changes the selections of (R, S) only: the
\* selections of the other sections of R and of every other request, and
\* their uploads, are as they were.
C29_SaveTouchesOneSection ==
    [][last'.op = "save"
       => LET req == (CHOOSE r \in requests' :
                            r.request_id = last'.rid).id
              sec == last'.args.section_type
              others == selections \ SectionOf(selections, req, sec)
          IN /\ selections' \ SectionOf(selections', req, sec) = others
             /\ UploadsOf(uploads', others) = UploadsOf(uploads, others)
      ]_vars

\* a save replaced a section while another section of the request and a
\* section of another request had uploads
C29_Witness ==
    /\ SaveOK(last)
    /\ last.out.deleted # {}
    /\ \E s, t \in selections :
        /\ s.request = last.out.request
        /\ s.section_type # last.args.section_type
        /\ t.request # last.out.request
        /\ UploadsOf(uploads, {s}) # {}
        /\ UploadsOf(uploads, {t}) # {}

----------------------------------------------------------------------------
(* Upload handlers addressed with the id of a request that does not own the *)
(* selection or the upload.                                                 *)

\* the call r names a selection (upload) or an upload (delete, accept) that
\* exists and belongs to a request other than the existing one it addresses
ForeignTarget(r, reqs, sels, ups) ==
    /\ Lookup(reqs, r.rid) # {}
    /\ \E s \in sels :
        /\ \A q \in Lookup(reqs, r.rid) : s.request # q.id
        /\ \/ r.op = "upload" /\ s.id = r.args.selection_id
           \/ /\ r.op \in {"delete", "accept"}
              /\ \E u \in ups : /\ u.id = r.args.upload_id
                                /\ u.admin_selection = s.id

\* C30: upload(R, s, file) with a selection of another request, and
\* delete(R, u) or setAccepted(R, u, ...) with an upload of another request,
\* fail as not found (404) and leave every upload row unchanged.
C30_ForeignTargetNotFound ==
    [][ForeignTarget(last', requests, selections, uploads)
       => /\ last'.status = 404
          /\ uploads' = uploads
      ]_vars

----------------------------------------------------------------------------
(* Two requests side by side: one makes adhoc documents of its own and      *)
(* gets uploads, the other selects documents by id and deletes adhoc        *)
(* selections.                                                              *)

NextIsolation ==
    \/ CreateAdhocDocument(OtherRequest, "W2", "d", 1)
    \/ \E rid \in RequestIds, sel \in SelectionIds :
            UploadUserFile(rid, sel, TRUE, "ok")
    \/ \E ids \in {{1}, {FirstCustom}} :
            SaveAdminSelections(ListedRequest, "adhoc", ids, NULL, "ok")
    \/ \E sel \in SelectionIds : DeleteAdhocDocument(ListedRequest, sel)

SpecIsolation == Init /\ [][NextIsolation]_vars

\* what the request row q owns: its selections, their uploads and the
\* documents, categories and print groups scoped to it
OwnedBy(q, cats, pgs, docs, sels, ups) ==
    [selections |-> {s \in sels : s.request = q.id},
     uploads |-> UploadsOf(ups, {s \in sels : s.request = q.id}),
     documents |-> {d \in docs : d.request = q.id},
     categories |-> {c \in cats : c.request = q.id},
     printGroups |-> {g \in pgs : g.request = q.id}]

\* C26: an operation addressed to request R leaves what another request R'
\* owns (selections, uploads, request-scoped documents, categories and print
\* groups) as it was.
C26_OtherRequestUntouched ==
    [][\A q \in requests :
          last'.rid # q.request_id
          => OwnedBy(q, categories', printGroups', documents', selections',
                     uploads')
               = OwnedBy(q, categories, printGroups, documents, selections,
                         uploads)
      ]_vars

----------------------------------------------------------------------------
(* delete_user_upload and accept_user_upload served at the same time, one   *)
(* database statement at a time.  Neither view opens a transaction or locks *)
(* the row: each works on the copy of the row its SELECT returned.          *)

\* a review request in flight: the view, its URL, the accepted flag of the
\* body, the statement it is at and the row that get_object_or_404 returned
ReviewProc(op, rid, upload_id, accepted, pc, status, fetched) ==
    [op |-> op, rid |-> rid, upload_id |-> upload_id, accepted |-> accepted,
     pc |-> pc, status |-> status, fetched |-> fetched]

\* lines 1265-1276 and 1312-1319: the two SELECTs, and for the delete the
\* test of upload.accepted on the row just read
BeginReview(op, rid, upload_id, accepted) ==
    LET reqs == Lookup(requests, rid)
        req == (CHOOSE r \in reqs : TRUE).id
        found == UploadOf(uploads, selections, req, upload_id)
        upload == CHOOSE u \in found : TRUE
        Done(status) ==
            ReviewProc(op, rid, upload_id, accepted, "done", status, NULL)
    IN
    /\ Len(procs) < NProc
    /\ procs' = Append(procs,
            IF reqs = {} THEN Done(404)
            ELSE IF found = {} THEN Done(500)
            ELSE IF op = "delete" /\ DeleteRefused(upload) THEN Done(403)
            ELSE ReviewProc(op, rid, upload_id, accepted,
                            IF op = "delete" THEN "remove" ELSE "save",
                            0, upload))
    /\ UNCHANGED <<tables, seq, now, last>>

\* lines 1287-1288, upload.delete(): DELETE ... WHERE id = the id read
DeleteRemoveStep(p) ==
    LET me == procs[p] IN
    /\ me.op = "delete" /\ me.pc = "remove"
    /\ uploads' = {u \in uploads : u.id # me.fetched.id}
    /\ procs' = [procs EXCEPT ![p].pc = "done", ![p].status = 200]
    /\ UNCHANGED <<requests, categories, printGroups, documents, selections,
                   seq, now, last>>

\* lines 1324-1330, upload.save(): an UPDATE of every column from the copy
\* in memory, and an INSERT of that copy when the UPDATE matched no row
AcceptSaveStep(p) ==
    LET me == procs[p] IN
    /\ me.op = "accept" /\ me.pc = "save"
    /\ me.accepted => now <= MaxClock
    /\ uploads' = {u \in uploads : u.id # me.fetched.id}
                    \cup {AcceptedColumns(me.fetched, me.accepted, now)}
    /\ now' = IF me.accepted THEN now + 1 ELSE now
    /\ procs' = [procs EXCEPT ![p].pc = "done", ![p].status = 200]
    /\ UNCHANGED <<requests, categories, printGroups, documents, selections,
                   seq, last>>

NextReview ==
    \/ selections = {}
        /\ SaveAdminSelections(ListedRequest, "individual", {1}, NULL, "ok")
    \/ \E sel \in SelectionIds :
            procs = <<>> /\ UploadUserFile(ListedRequest, sel, TRUE, "ok")
    \/ \E up \in UploadIds, a \in BOOLEAN :
            BeginReview("accept", ListedRequest, up, a)
    \/ \E up \in UploadIds : BeginReview("delete", ListedRequest, up, FALSE)
    \/ \E p \in DOMAIN procs : DeleteRemoveStep(p)
    \/ \E p \in DOMAIN procs : AcceptSaveStep(p)

SpecReview == Init /\ [][NextReview]_vars

\* C27: with delete(R, U) and setAccepted(R, U, true) served at the same
\* time, the delete never removes U once setAccepted has answered that U is
\* accepted.
C27_NoDeleteAfterAcceptReported ==
    [][\A p, q \in DOMAIN procs :
          ( /\ procs[q].op = "accept" /\ procs[q].accepted
            /\ procs[q].pc = "done" /\ procs[q].status = 200
            /\ procs[p].op = "delete" /\ procs[p].pc = "remove"
            /\ procs[p].upload_id = procs[q].upload_id
            /\ \E u \in uploads : u.id = procs[p].upload_id /\ u.accepted )
          => ~( /\ procs'[p].pc = "done" /\ procs'[p].status = 200
                /\ ~\E u \in uploads' : u.id = procs[p].upload_id )
      ]_vars

----------------------------------------------------------------------------
(* The handlers that look a selection or an upload up, called for requests, *)
(* selections and uploads that exist, that belong to the other request and  *)
(* that do not exist.                                                       *)

NextLookups ==
    \/ CreateAdhocDocument(OtherRequest, "W2", "d", 1)
    \/ \E b \in {<<"individual", {1}, NULL>>, <<"needs_list", {1}, 1>>} :
            SaveAdminSelections(ListedRequest, b[1], b[2], b[3], "ok")
    \/ \E rid \in RequestIds : UploadUserFile(rid, 1, TRUE, "ok")
    \/ \E rid \in RequestIds : DeleteUserUpload(rid, 1, TRUE)
    \/ \E rid \in RequestIds : AcceptUserUpload(rid, 1, TRUE)
    \/ \E rid \in RequestIds, sel \in 1..2 : DeleteAdhocDocument(rid, sel)

SpecLookups == Init /\ [][NextLookups]_vars

\* the selections of section sec that the request id rid reaches
Reachable(reqs, sels, rid, sec) ==
    UNION {SectionOf(sels, q.id, sec) : q \in Lookup(reqs, rid)}

\* C31: deleteAdhoc(R, s) where s does not exist, belongs to another request
\* or is an individual or needs_list selection fails with the
\* selection-not-found error (a NotFoundError, 404) and deletes no selection,
\* document or upload.
C31_DeleteAdhocNotFound ==
    [][( /\ last'.op = "delete_adhoc"
         /\ Lookup(requests, last'.rid) # {}
         /\ ~\E s \in Reachable(requests, selections, last'.rid, "adhoc") :
                s.id = last'.args.selection_id )
       => /\ last'.status = 404
          /\ UNCHANGED <<selections, documents, uploads>>
      ]_vars

\* the call r meets a not-found condition: no DocumentRequest row of its
\* request id, or no selection (upload, deleteAdhoc) or upload (delete,
\* setAccepted) of its id under the request
NotFoundCondition(r, reqs, sels, ups) ==
    /\ r.op \in {"upload", "delete", "accept", "delete_adhoc"}
    /\ \/ Lookup(reqs, r.rid) = {}
       \/ /\ r.op = "upload"
          /\ ~\E sec \in SECTION_CHOICES :
                \E s \in Reachable(reqs, sels, r.rid, sec) :
                    s.id = r.args.selection_id
       \/ /\ r.op = "delete_adhoc"
          /\ ~\E s \in Reachable(reqs, sels, r.rid, "adhoc") :
                s.id = r.args.selection_id
       \/ /\ r.op \in {"delete", "accept"}
          /\ \A q \in Lookup(reqs, r.rid) :
                UploadOf(ups, sels, q.id, r.args.upload_id) = {}

\* C32: every not-found condition (absent request, absent selection in upload
\* and deleteAdhoc, absent upload in delete and setAccepted) is answered as
\* not found, 404, not as an internal error.
C32_NotFoundIs404 ==
    [][NotFoundCondition(last', requests, selections, uploads)
       => last'.status = 404
      ]_vars

----------------------------------------------------------------------------
(* Bulk saves with no document id *)

\* C33: replaceSection with an empty documentIds set is refused with a
\* validation error (400) and changes nothing; after every successful
\* replaceSection(R, S, ...) the section (R, S) has at least one selection.
C33_EmptySaveRejected ==
    [][last'.op = "save"
       => /\ last'.args.document_ids = {}
                => /\ last'.status = 400
                   /\ UNCHANGED <<selections, uploads, documents>>
          /\ SaveOK(last')
                => SectionOf(selections', last'.out.request,
                             last'.args.section_type) # {}
      ]_vars

\* a save with no document id was refused for a section that has selections
C33_Witness ==
    /\ last.op = "save" /\ last.status = 400
    /\ last.args.section_type \in SECTION_CHOICES
    /\ last.args.document_ids = {}
    /\ Reachable(requests, selections, last.rid, last.args.section_type) # {}

----------------------------------------------------------------------------
(* Which entry points make the DocumentRequest row *)

\* admin_user_uploads_view: DocumentRequest.objects.get, and the
\* request_not_found page when there is no row
AdminUserUploadsView(rid) ==
    ReadPath("admin_user_uploads_view", rid, "admin_user_uploads", 200,
             "request_not_found")

\* every entry point that takes a request id, with a body that passes and
\* one that fails validation where there is a body
NextRequests ==
    \/ \E rid \in RequestIds : Homepage(rid)
    \/ \E rid \in RequestIds : NeedsListPage(rid)
    \/ \E rid \in RequestIds : AdminUserUploadsView(rid)
    \/ \E rid \in RequestIds : CreateAdhocDocument(rid, "", "d", 1)
    \/ documents = SeedDocuments
        /\ CreateAdhocDocument(ListedRequest, "W2", "d", 1)
    \/ \E rid \in RequestIds :
            CreateIndividualDocument(rid, "W2", "d", NoCategory)
    \/ \E rid \in RequestIds :
            CreateNeedsListDocument(rid, "W2", "d", 1, NoPrintGroup)
    \/ \E rid \in RequestIds : CreateNeedsListPrintGroup(rid, "")
    \/ \E rid \in RequestIds :
            SaveAdminSelections(rid, "other", {1}, NULL, "ok")
    \/ \E rid \in RequestIds : UploadUserFile(rid, 1, TRUE, "ok")
    \/ \E rid \in RequestIds : DeleteUserUpload(rid, 1, TRUE)
    \/ \E rid \in RequestIds : AcceptUserUpload(rid, 1, TRUE)
    \/ \E rid \in RequestIds : DeleteAdhocDocument(rid, 1)
    \/ \E rid \in RequestIds : UserUploadPage(rid)
    \/ \E rid \in RequestIds : UserDocumentsView(rid)
    \/ \E rid \in RequestIds : DownloadRequestPdf(rid)

SpecRequests == Init /\ [][NextRequests]_vars

\* the admin-side operations that resolve the request with get_or_create
AdminCreating ==
    {"homepage", "needs_list_page", "create_adhoc", "create_individual",
     "create_needs_list", "create_print_group", "save"}

\* the operations that resolve the request with get
NeverCreating ==
    {"upload", "delete", "accept", "delete_adhoc", "user_upload_page",
     "user_documents_view", "download_request_pdf"}

\* the operations in ops leave a row of their request id, those in gets make
\* no row, and no row is removed
RequestRowRule(ops, gets) ==
    /\ last'.op \in ops => Lookup(requests', last'.rid) # {}
    /\ last'.op \in gets => requests' = requests
    /\ requests \subseteq requests'

\* C34, as the claim states it: every admin-side operation invoked with
\* request id R, the admin pages among them, leaves a DocumentRequest row of R
\* even when it fails validation; upload, upload delete, setAccepted,
\* deleteAdhoc and the borrower-facing reads never create one; a row is never
\* removed.
C34_AdminOperationsLeaveRow ==
    [][RequestRowRule(AdminCreating \cup {"admin_user_uploads_view"},
                      NeverCreating)]_vars

\* C34, amended: the same, with the admin review page of the uploads among
\* the operations that never create a row.
C34_AdminOperationsButReview ==
    [][RequestRowRule(AdminCreating,
                      NeverCreating \cup {"admin_user_uploads_view"})]_vars

\* a create handler has refused its body and the request row is there,
\* with nothing else of the request
C34_Witness ==
    /\ last.op \in {"create_adhoc", "create_individual", "create_needs_list",
                    "create_print_group", "save"}
    /\ last.status \in {400, 404}
    /\ \E q \in Lookup(requests, last.rid) :
        /\ requests = {q}
        /\ ~\E s \in selections : s.request = q.id

----------------------------------------------------------------------------
(* Deleting an upload when the media host does not answer *)

\* C35: delete(R, U) on a pending upload U of R succeeds and removes the row
\* of U, and no other upload row, whether the remote deletion works or fails.
C35_DeleteDespiteRemoteFailure ==
    [][\A u \in uploads :
          ( /\ last'.op = "delete"
            /\ last'.args.upload_id = u.id
            /\ UploadRequestId(u) = last'.rid
            /\ ~u.accepted )
          => /\ last'.status = 200
             /\ uploads' = uploads \ {u}
      ]_vars

\* a pending upload was deleted while the remote deletion failed and another
\* upload stays
C35_Witness ==
    /\ last.op = "delete" /\ last.status = 200
    /\ ~last.args.ghl
    /\ uploads # {}
    /\ seq.upload > Cardinality(uploads) + 1

----------------------------------------------------------------------------
(* The projection on its surfaces, over needs-list selections of several    *)
(* print groups, some of them deleted since.                                *)

\* a print group deleted on the admin site (PrintGroupAdmin):
\* AdminDocumentSelection.print_group is on_delete=SET_NULL
DeletePrintGroup(id) ==
    /\ \E g \in printGroups : g.id = id
    /\ printGroups' = {g \in printGroups : g.id # id}
    /\ selections' = {IF s.print_group = id
                      THEN [s EXCEPT !.print_group = NULL] ELSE s :
                            s \in selections}
    /\ Answer(Response("delete_print_group", "", 200, [id |-> id], <<>>))
    /\ UNCHANGED <<requests, categories, documents, uploads, seq, now>>

NextProjection ==
    \/ \E pg \in PrintGroupIds :
            CreateNeedsListDocument(ListedRequest, "W2", "d", 1, pg)
    \/ CreateAdhocDocument(ListedRequest, "W2", "d", 1)
    \/ SaveAdminSelections(ListedRequest, "individual", {1}, NULL, "ok")
    \/ \E pg \in PrintGroupIds : DeletePrintGroup(pg)
    \/ UploadUserFile(ListedRequest, 1, TRUE, "ok")
    \/ AdminUserUploadsView(ListedRequest)
    \/ UserUploadPage(ListedRequest)
    \/ UserDocumentsView(ListedRequest)
    \/ DownloadRequestPdf(ListedRequest)

SpecProjection == Init /\ [][NextProjection]_vars

\* the places of a view where the selection id stands
Places(view, id) ==
    {<<"adhoc", i>> : i \in {j \in DOMAIN view.adhoc :
                                view.adhoc[j].selection_id = id}}
    \cup {<<"individual", i>> : i \in {j \in DOMAIN view.individual :
                                view.individual[j].selection_id = id}}
    \cup UNION {{<<n, i>> : i \in {j \in DOMAIN view.needsList[n] :
                                view.needsList[n][j].selection_id = id}} :
                    n \in DOMAIN view.needsList}

\* C36: buildView gives a view for a request whose needs_list selections
\* have lost their print group: those selections stand under the group key
\* "Unknown", and every selection of the request stands at exactly one place
\* of the view (adhoc, individual or one needsList group).
C36_UnknownGroupAndPartition ==
    \A q \in requests :
        LET view == BuildView(selections, uploads, printGroups, q.id) IN
        \A s \in selections :
            s.request = q.id
            => /\ Cardinality(Places(view, s.id)) = 1
               /\ (s.section_type = "needs_list" /\ s.print_group = NULL)
                    => /\ "Unknown" \in DOMAIN view.needsList
                       /\ \E i \in DOMAIN view.needsList["Unknown"] :
                            view.needsList["Unknown"][i].selection_id = s.id

\* a surface has shown a request that has needs_list selections without
\* print group next to grouped ones and to an individual selection
C36_Witness ==
    /\ last.op \in {"admin_user_uploads_view", "user_upload_page",
                    "user_documents_view", "download_request_pdf"}
    /\ last.status = 200
    /\ "view" \in DOMAIN last.out
    /\ "Unknown" \in DOMAIN last.out.view.needsList
    /\ Cardinality(DOMAIN last.out.view.needsList) > 1
    /\ Len(last.out.view.individual) > 0

\* the sequence of names is in ascending order
Ascending(keys) ==
    \A i, j \in DOMAIN keys : i < j => GroupRank(keys[i]) < GroupRank(keys[j])

\* C37: on every surface that shows the view (admin review screen, borrower
\* screens, PDF export) the needsList groups come in lexicographic order of
\* their names, whatever the order in which the selections were created.
C37_GroupsLexicographic ==
    ("groups" \in DOMAIN last.out) => Ascending(last.out.groups)

====
